---- MODULE Spec2Model ----
(***************************************************************************)
(* The sync pipeline of the `sync` crate: scanner, comparator, differ,     *)
(* conflict resolver and executor (SyncEngine), with the metrics           *)
(* accumulator and the progress channel.                                   *)
(*                                                                         *)
(* Two directory trees are modelled as functions from a small universe of  *)
(* relative paths to nodes.  Time is counted in ticks; TicksPerSec ticks   *)
(* make one second, so that a modification time can carry a sub-second     *)
(* part (SystemTime has nanosecond resolution).                            *)
(***************************************************************************)
EXTENDS Integers, Sequences, FiniteSets, TLC

(***************************************************************************)
(* Bounds of the model                                                      *)
(***************************************************************************)
TicksPerSec == 2
MaxByte == 2
MaxFileLen == 2
MaxRuns == 2

\* The modification times of the initial files: one whole second, and one
\* tick past it.  The syncs start at a later second.
Mtimes == {TicksPerSec, TicksPerSec + 1}
ClockStart == 2 * TicksPerSec

\* File contents: every one-byte content, and the longer contents filled
\* with byte 1.  The length of the content is the file size.
Contents ==
  {<<b>> : b \in 1..MaxByte} \cup {[i \in 1..n |-> 1] : n \in 2..MaxFileLen}

(***************************************************************************)
(* Paths and trees                                                          *)
(***************************************************************************)
Root == <<>>
PathD == <<"d">>
PathDE == <<"d", "e">>
PathDEX == <<"d", "e", "x">>
Paths == {Root, PathD, PathDE, PathDEX}

Parent(p) == SubSeq(p, 1, Len(p) - 1)
Prefixes(p) == {SubSeq(p, 1, k) : k \in 0..Len(p)}
IsUnder(q, p) == Len(q) > Len(p) /\ SubSeq(q, 1, Len(p)) = p

Absent == [kind |-> "absent", content |-> <<>>, mtime |-> 0]
DirNode(m) == [kind |-> "dir", content |-> <<>>, mtime |-> m]
FileNode(c, m) == [kind |-> "file", content |-> c, mtime |-> m]

Nodes ==
  {Absent, DirNode(TicksPerSec)} \cup {FileNode(c, m) : c \in Contents, m \in Mtimes}

EmptyFS == [p \in Paths |-> Absent]

\* A tree: every present entry has a directory as its parent.  In the
\* initial trees d/e is a directory name, d/e/x a file name, and d, where it
\* is a file, is one fixed file.
WellFormed(t) ==
  \A p \in Paths :
    (p # Root /\ t[p].kind # "absent") => t[Parent(p)].kind = "dir"

Trees ==
  {t \in [Paths -> Nodes] :
     /\ t[Root].kind = "dir"
     /\ WellFormed(t)
     /\ t[PathDE].kind # "file"
     /\ t[PathDEX].kind # "dir"
     /\ t[PathD].kind = "file" => t[PathD] = FileNode(<<1>>, TicksPerSec)}

Present(fs) == {p \in Paths : fs[p].kind # "absent"}

(***************************************************************************)
(* Sequences                                                                *)
(***************************************************************************)
RECURSIVE SumSeq(_)
SumSeq(s) == IF s = <<>> THEN 0 ELSE Head(s) + SumSeq(Tail(s))

\* The sequences that list every element of S exactly once.
RECURSIVE Perms(_)
Perms(S) ==
  IF S = {} THEN {<<>>}
  ELSE UNION {{<<x>> \o r : r \in Perms(S \ {x})} : x \in S}

(***************************************************************************)
(* Options                                                                  *)
(***************************************************************************)
Methods ==
  {"Size", "Timestamp", "SizeAndTimestamp", "Sha256", "Blake3", "ByteByByte",
   "Comprehensive"}

Strategies ==
  {"PreferSource", "PreferDestination", "PreferNewer", "PreferOlder",
   "PreferLarger", "PreferSmaller", "Skip", "BackupAndUseSource",
   "BackupAndKeepDestination", "Manual", "Fail"}

\* Option<u64>: None, and Some(n)
NoSize == [some |-> FALSE, value |-> 0]
SomeSize(n) == [some |-> TRUE, value |-> n]

\* FilterOptions::default(), as the option that is None and as a value, and
\* the default with the given patterns.
NoFilter ==
  [some |-> FALSE, include_patterns |-> <<>>, exclude_patterns |-> <<>>,
   case_sensitive |-> FALSE, include_hidden |-> TRUE,
   max_file_size |-> NoSize, min_file_size |-> NoSize]

DefaultFilter == [NoFilter EXCEPT !.some = TRUE]

FilterOf(inc, exc) ==
  [DefaultFilter EXCEPT !.include_patterns = inc, !.exclude_patterns = exc]

\* SyncOptions::default(), with ScanOptions::default() and
\* PreservationOptions::default().
DefaultOptions ==
  [dry_run |-> FALSE,
   delete_extra |-> TRUE,
   continue_on_error |-> FALSE,
   comparison_method |-> "SizeAndTimestamp",
   conflict_strategy |-> "Manual",
   filter_options |-> NoFilter,
   scan_filter_options |-> NoFilter,
   collect_hashes |-> FALSE,
   preserve_mtime |-> TRUE,
   backup_directory |-> FALSE,
   max_concurrency |-> 4]

(***************************************************************************)
(* Filter (filter.rs)                                                       *)
(***************************************************************************)
\* A glob pattern is a sequence of tokens separated by '/': a literal name,
\* "**" (any number of components; as the last token at least one), or "["
\* (an unclosed character class, which does not compile).
RECURSIVE GlobMatch(_, _)
GlobMatch(pat, path) ==
  IF pat = <<>> THEN path = <<>>
  ELSE IF Head(pat) = "**"
    THEN IF Len(pat) = 1
           THEN path # <<>>
           ELSE \/ GlobMatch(Tail(pat), path)
                \/ (path # <<>> /\ GlobMatch(pat, Tail(path)))
    ELSE /\ path # <<>>
         /\ Head(path) = Head(pat)
         /\ GlobMatch(Tail(pat), Tail(path))

ValidGlob(pat) == \A i \in 1..Len(pat) : pat[i] # "["

\* The lower case of a name, over the names of the model: "X" is the one
\* with an upper-case letter.
Lower(name) == IF name = "X" THEN "x" ELSE name

LowerPath(path) == [i \in 1..Len(path) |-> Lower(path[i])]

\* The names that start with a '.' (and are neither "." nor "..").
DotNames == {".h"}

\* FileFilter::is_hidden: some component starts with a '.'.
is_hidden(path) == \E i \in 1..Len(path) : path[i] \in DotNames

\* GlobSet::is_match: some pattern of the set matches; the globs of a set
\* built without case_sensitive match regardless of case.
is_match(patterns, path, case_sensitive) ==
  \E i \in 1..Len(patterns) :
     IF case_sensitive
       THEN GlobMatch(patterns[i], path)
       ELSE GlobMatch(LowerPath(patterns[i]), LowerPath(path))

\* FileFilter::new: Err(FilterPattern) when a pattern does not compile.
FileFilter_new(fo) ==
  IF /\ (\A i \in 1..Len(fo.include_patterns) : ValidGlob(fo.include_patterns[i]))
     /\ (\A j \in 1..Len(fo.exclude_patterns) : ValidGlob(fo.exclude_patterns[j]))
  THEN [ok |-> TRUE, filter |-> fo]
  ELSE [ok |-> FALSE, filter |-> NoFilter]

\* FileFilter::should_include
should_include(filter, path) ==
  /\ ~ (~ filter.include_hidden /\ is_hidden(path))
  /\ (filter.include_patterns # <<>> =>
        is_match(filter.include_patterns, path, filter.case_sensitive))
  /\ ~ (/\ filter.exclude_patterns # <<>>
        /\ is_match(filter.exclude_patterns, path, filter.case_sensitive))

\* FileFilter::should_include_size
should_include_size(filter, file_size) ==
  /\ ~ (filter.max_file_size.some /\ file_size > filter.max_file_size.value)
  /\ ~ (filter.min_file_size.some /\ file_size < filter.min_file_size.value)

\* FileFilter::should_include_file
should_include_file(filter, path, file_size) ==
  should_include(filter, path) /\ should_include_size(filter, file_size)

Min(a, b) == IF a <= b THEN a ELSE b
Max(a, b) == IF a >= b THEN a ELSE b

\* The smaller of two Option<u64> limits, and the larger: a side that is
\* None yields the other.
MinSize(a, b) ==
  IF a.some /\ b.some THEN SomeSize(Min(a.value, b.value))
  ELSE IF a.some THEN a
  ELSE b

MaxSize(a, b) ==
  IF a.some /\ b.some THEN SomeSize(Max(a.value, b.value))
  ELSE IF a.some THEN a
  ELSE b

\* FileFilter::and: the filter built from the combined options, or the
\* FilterPattern error of FileFilter::new.
and(self, other) ==
  FileFilter_new(
    [some |-> TRUE,
     include_patterns |-> self.include_patterns \o other.include_patterns,
     exclude_patterns |-> self.exclude_patterns \o other.exclude_patterns,
     case_sensitive |-> self.case_sensitive \/ other.case_sensitive,
     include_hidden |-> self.include_hidden /\ other.include_hidden,
     max_file_size |-> MinSize(self.max_file_size, other.max_file_size),
     min_file_size |-> MaxSize(self.min_file_size, other.min_file_size)])

\* SyncEngine::new: an options filter that fails to compile is dropped.
EngineFilter(options) ==
  IF options.filter_options.some /\ FileFilter_new(options.filter_options).ok
  THEN options.filter_options
  ELSE NoFilter

\* DirectoryScanner::new: a scan filter that fails to compile is replaced by
\* FileFilter::default(), which includes every path.
ScannerFilter(options) ==
  IF ~ options.scan_filter_options.some THEN NoFilter
  ELSE IF FileFilter_new(options.scan_filter_options).ok
    THEN options.scan_filter_options
    ELSE DefaultFilter

(***************************************************************************)
(* Scanner (scanner.rs)                                                     *)
(***************************************************************************)
NoHash == [some |-> FALSE, digest |-> <<>>]
\* A digest is collision free: it stands for the content it was computed of.
Digest(content) == [some |-> TRUE, digest |-> content]

create_file_entry(fs, p, options) ==
  [relative_path |-> p,
   size |-> Len(fs[p].content),
   modified |-> fs[p].mtime,
   is_dir |-> fs[p].kind = "dir",
   is_symlink |-> FALSE,
   hash |-> IF options.collect_hashes /\ fs[p].kind # "dir"
            THEN Digest(fs[p].content) ELSE NoHash]

\* The walkers yield a directory before its contents, and the contents of a
\* directory as one block; the order of siblings is the host's.
WalkOrders(fs) ==
  {o \in Perms(Present(fs)) :
     \A i \in 1..Len(o), j \in 1..Len(o) :
       /\ (IsUnder(o[j], o[i]) => i < j)
       /\ \A k \in 1..Len(o) :
            (i < k /\ k < j /\ IsUnder(o[j], o[i])) => IsUnder(o[k], o[i])}

\* DirectoryScanner::scan on an existing directory, walking in order o.
scan(fs, o, options) ==
  LET entries == [i \in 1..Len(o) |-> create_file_entry(fs, o[i], options)]
      filter == ScannerFilter(options)
  IN  IF options.scan_filter_options.some
      THEN SelectSeq(entries, LAMBDA e : should_include(filter, e.relative_path))
      ELSE entries

RelPaths(entries) == {entries[i].relative_path : i \in 1..Len(entries)}

(***************************************************************************)
(* Comparator (comparator.rs)                                               *)
(***************************************************************************)
compare_by_size(s, d) ==
  IF Len(s.content) = Len(d.content) THEN "Identical" ELSE "DifferentSize"

\* compare_by_timestamp that takes equal modification times for a newer
\* source.
compare_by_timestamp_or_equal(s, d) ==
  IF s.mtime >= d.mtime THEN "SourceNewer" ELSE "DestinationNewer"

compare_by_timestamp(s, d) ==
  IF s.mtime > d.mtime THEN "SourceNewer"
  ELSE IF s.mtime < d.mtime THEN "DestinationNewer"
  ELSE "Identical"

compare_by_size_and_timestamp(s, d) ==
  IF Len(s.content) # Len(d.content) THEN "DifferentSize"
  ELSE compare_by_timestamp(s, d)

\* compare_by_hash and compare_byte_by_byte both decide on the content.
compare_by_hash(s, d) ==
  IF s.content = d.content THEN "Identical" ELSE "DifferentContent"

compare_byte_by_byte(s, d) ==
  IF s.content = d.content THEN "Identical" ELSE "DifferentContent"

compare_comprehensive(s, d) ==
  IF Len(s.content) # Len(d.content) THEN "DifferentSize"
  ELSE IF s.mtime = d.mtime THEN "Identical"
  ELSE IF compare_by_hash(s, d) = "Identical" THEN "Identical"
  ELSE IF s.mtime > d.mtime THEN "SourceNewer"
  ELSE "DestinationNewer"

\* FileComparator::compare on the nodes found at the two paths.  "Error" is
\* the value Ok(ComparisonResult::Error), "Err" the Comparison error.
compare(s, d, method) ==
  IF s.kind # "absent" /\ d.kind = "absent" THEN "SourceOnly"
  ELSE IF s.kind = "absent" /\ d.kind # "absent" THEN "DestinationOnly"
  ELSE IF s.kind = "absent" /\ d.kind = "absent" THEN "Error"
  ELSE IF s.kind = "dir" \/ d.kind = "dir" THEN "Err"
  ELSE CASE method = "Size" -> compare_by_size(s, d)
         [] method = "Timestamp" -> compare_by_timestamp(s, d)
         [] method = "SizeAndTimestamp" -> compare_by_size_and_timestamp(s, d)
         [] method = "Sha256" -> compare_by_hash(s, d)
         [] method = "Blake3" -> compare_by_hash(s, d)
         [] method = "ByteByByte" -> compare_byte_by_byte(s, d)
         [] method = "Comprehensive" -> compare_comprehensive(s, d)

\* FileComparator::compare_entries; sfs and dfs are the trees the entries'
\* absolute paths point into.
compare_entries(source, destination, method, sfs, dfs) ==
  IF /\ source.hash.some /\ destination.hash.some
     /\ method \in {"Sha256", "Blake3", "Comprehensive"}
  THEN IF source.hash.digest = destination.hash.digest
         THEN "Identical" ELSE "DifferentContent"
  ELSE compare(sfs[source.relative_path], dfs[destination.relative_path], method)

(***************************************************************************)
(* Differ (diff.rs)                                                         *)
(***************************************************************************)
Copy(src, dst, size) ==
  [type |-> "Copy", source |-> src, destination |-> dst, file_size |-> size]
Update(src, dst, size) ==
  [type |-> "Update", source |-> src, destination |-> dst, file_size |-> size]
Delete(p) == [type |-> "Delete", path |-> p]
CreateDirectory(p) == [type |-> "CreateDirectory", path |-> p]
Conflict(src, dst, ctype, sinfo, dinfo) ==
  [type |-> "Conflict", source |-> src, destination |-> dst,
   conflict_type |-> ctype, source_info |-> sinfo, destination_info |-> dinfo]
Skip(p, why) == [type |-> "Skip", path |-> p, reason |-> why]

\* impl From<&FileEntry> for FileInfo
FileInfo(entry) ==
  [size |-> entry.size, modified |-> entry.modified, is_dir |-> entry.is_dir,
   is_symlink |-> entry.is_symlink, hash |-> entry.hash]

\* The relative path an action refers to (the source side where it has one).
ActionPath(a) ==
  IF a.type \in {"Copy", "Update", "Conflict"} THEN a.source ELSE a.path

\* The destination path an action writes to.
TargetPath(a) ==
  IF a.type \in {"Copy", "Update", "Conflict"} THEN a.destination ELSE a.path

\* compare_and_decide with a destination that is newer left alone: Skip
\* instead of the BothModified conflict.
compare_and_decide_skip_newer(source, destination, method, sfs, dfs) ==
  LET s == source.relative_path
      d == destination.relative_path
      conflict(ctype) ==
        Conflict(s, d, ctype, FileInfo(source), FileInfo(destination))
      r == compare_entries(source, destination, method, sfs, dfs)
  IN  IF source.is_dir # destination.is_dir THEN conflict("FileDirectoryConflict")
      ELSE IF source.is_symlink # destination.is_symlink THEN conflict("TypeMismatch")
      ELSE IF source.is_dir /\ destination.is_dir
        THEN Skip(s, "Directory already exists")
      ELSE CASE r = "Identical" -> Skip(s, "Files are identical")
             [] r = "SourceNewer" -> Update(s, d, source.size)
             [] r = "DestinationNewer" -> Skip(s, "Destination is newer")
             [] r = "DifferentSize" ->
                  IF source.modified = destination.modified
                    THEN conflict("SizeMismatch")
                  ELSE IF source.modified > destination.modified
                    THEN Update(s, d, source.size)
                  ELSE conflict("BothModified")
             [] r = "DifferentContent" ->
                  IF source.modified > destination.modified
                    THEN Update(s, d, source.size)
                    ELSE conflict("BothModified")
             [] r = "Different" -> Update(s, d, source.size)
             [] r = "SourceOnly" -> Copy(s, d, source.size)
             [] r = "DestinationOnly" -> Delete(d)
             [] r \in {"Error", "Err"} -> [type |-> "Err"]

\* DiffEngine::compare_and_decide; the result is an action, or the
\* Comparison error as [type |-> "Err"].
compare_and_decide(source, destination, method, sfs, dfs) ==
  LET s == source.relative_path
      d == destination.relative_path
      conflict(ctype) ==
        Conflict(s, d, ctype, FileInfo(source), FileInfo(destination))
      r == compare_entries(source, destination, method, sfs, dfs)
  IN  IF source.is_dir # destination.is_dir THEN conflict("FileDirectoryConflict")
      ELSE IF source.is_symlink # destination.is_symlink THEN conflict("TypeMismatch")
      ELSE IF source.is_dir /\ destination.is_dir
        THEN Skip(s, "Directory already exists")
      ELSE CASE r = "Identical" -> Skip(s, "Files are identical")
             [] r = "SourceNewer" -> Update(s, d, source.size)
             [] r = "DestinationNewer" -> conflict("BothModified")
             [] r = "DifferentSize" ->
                  IF source.modified = destination.modified
                    THEN conflict("SizeMismatch")
                  ELSE IF source.modified > destination.modified
                    THEN Update(s, d, source.size)
                  ELSE conflict("BothModified")
             [] r = "DifferentContent" ->
                  IF source.modified > destination.modified
                    THEN Update(s, d, source.size)
                    ELSE conflict("BothModified")
             [] r = "Different" -> Update(s, d, source.size)
             [] r = "SourceOnly" -> Copy(s, d, source.size)
             [] r = "DestinationOnly" -> Delete(d)
             [] r \in {"Error", "Err"} -> [type |-> "Err"]

\* DiffEngine::generate_summary
generate_summary(actions) ==
  LET count(t) == Cardinality({i \in 1..Len(actions) : actions[i].type = t})
  IN  [total_actions |-> Len(actions),
       copies |-> count("Copy"),
       updates |-> count("Update"),
       deletes |-> count("Delete"),
       directory_creates |-> count("CreateDirectory"),
       conflicts |-> count("Conflict"),
       skips |-> count("Skip"),
       total_bytes_to_transfer |->
         SumSeq([i \in 1..Len(actions) |->
                   IF actions[i].type \in {"Copy", "Update"}
                     THEN actions[i].file_size ELSE 0])]

\* dest_map.get(relative_path): the entry of that relative path.
Lookup(entries, p) ==
  entries[CHOOSE i \in 1..Len(entries) :
            /\ entries[i].relative_path = p
            /\ \A j \in (i + 1)..Len(entries) : entries[j].relative_path # p]

\* A second loop that does not look at the processed paths: a Delete for
\* every destination entry.
DeleteExtra_unchecked(source_entries, dest_entries) ==
  [i \in 1..Len(dest_entries) |-> Delete(dest_entries[i].relative_path)]

\* The second loop of generate_plan: a Delete for every destination entry
\* whose relative path was not processed in the first loop.
DeleteExtra(source_entries, dest_entries) ==
  LET extra == SelectSeq(dest_entries,
                 LAMBDA e : e.relative_path \notin RelPaths(source_entries))
  IN  [i \in 1..Len(extra) |-> Delete(extra[i].relative_path)]

\* DiffEngine::generate_plan
generate_plan(source_entries, dest_entries, method, sfs, dfs) ==
  LET first == [i \in 1..Len(source_entries) |->
        LET e == source_entries[i]
        IN  IF e.relative_path \in RelPaths(dest_entries)
              THEN compare_and_decide(e, Lookup(dest_entries, e.relative_path),
                                      method, sfs, dfs)
            ELSE IF e.is_dir THEN CreateDirectory(e.relative_path)
            ELSE Copy(e.relative_path, e.relative_path, e.size)]
      actions == first \o DeleteExtra(source_entries, dest_entries)
  IN  IF \E i \in 1..Len(first) : first[i].type = "Err"
        THEN [ok |-> FALSE, actions |-> <<>>, summary |-> generate_summary(<<>>)]
        ELSE [ok |-> TRUE, actions |-> actions, summary |-> generate_summary(actions)]

\* DiffEngine::get_action_file_size
diff_get_action_file_size(a) ==
  IF a.type \in {"Copy", "Update"} THEN a.file_size ELSE 0

\* A comparator that orders by size alone, without the directories-first
\* rule.
SortsBefore_by_size(a, b) ==
  diff_get_action_file_size(b) < diff_get_action_file_size(a)

\* The comparator closure of sort_actions: TRUE when a sorts before b.
SortsBefore(a, b) ==
  LET a_is_dir == a.type = "CreateDirectory"
      b_is_dir == b.type = "CreateDirectory"
  IN  IF a_is_dir /\ ~ b_is_dir THEN TRUE
      ELSE IF ~ a_is_dir /\ b_is_dir THEN FALSE
      ELSE diff_get_action_file_size(b) < diff_get_action_file_size(a)

\* Insert a behind every element of the sorted sequence it does not sort
\* before (slice::sort_by is stable).
RECURSIVE InsertSorted(_, _)
InsertSorted(a, sorted) ==
  IF sorted = <<>> THEN <<a>>
  ELSE IF SortsBefore(a, Head(sorted)) THEN <<a>> \o sorted
  ELSE <<Head(sorted)>> \o InsertSorted(a, Tail(sorted))

\* DiffEngine::sort_actions
RECURSIVE sort_actions(_)
sort_actions(actions) ==
  IF actions = <<>> THEN <<>>
  ELSE InsertSorted(actions[Len(actions)],
                    sort_actions(SubSeq(actions, 1, Len(actions) - 1)))

\* SyncEngine::should_include_action
should_include_action(a, filter) == should_include(filter, ActionPath(a))

\* SyncEngine::generate_sync_plan: the plan of the Differ, the filter stage
\* and the sort.  The summary is the one generate_plan computed.
generate_sync_plan(source_entries, dest_entries, options, sfs, dfs) ==
  LET plan == generate_plan(source_entries, dest_entries,
                            options.comparison_method, sfs, dfs)
      filter == EngineFilter(options)
      kept == IF filter.some
                THEN SelectSeq(plan.actions,
                       LAMBDA a : should_include_action(a, filter))
                ELSE plan.actions
  IN  [ok |-> plan.ok, actions |-> sort_actions(kept), summary |-> plan.summary]

(***************************************************************************)
(* Conflict resolver (conflict.rs)                                          *)
(***************************************************************************)
\* ConflictResolver::generate_backup_path: fails without a backup directory
\* and for a path without a file name.
generate_backup_path(options, original_path, suffix) ==
  IF ~ options.backup_directory THEN [ok |-> FALSE, path |-> <<>>]
  ELSE IF original_path = <<>> THEN [ok |-> FALSE, path |-> <<>>]
  ELSE [ok |-> TRUE, path |-> <<"backup", original_path[Len(original_path)], suffix>>]

\* apply_strategy without the fall-back of PreferLarger and PreferSmaller
\* to PreferNewer: equal sizes go to the source.
apply_strategy_tie_to_source(strategy, source, destination, source_info, destination_info, options) ==
  CASE strategy = "PreferSource" -> [kind |-> "UseSource"]
    [] strategy = "PreferDestination" -> [kind |-> "UseDestination"]
    [] strategy \in {"PreferNewer", "PreferOlder"} ->
         IF source_info.modified = destination_info.modified
           THEN [kind |-> "UseSource"]
         ELSE IF (strategy = "PreferNewer")
                   = (source_info.modified > destination_info.modified)
           THEN [kind |-> "UseSource"]
         ELSE [kind |-> "UseDestination"]
    [] strategy \in {"PreferLarger", "PreferSmaller"} ->
         IF source_info.size = destination_info.size
           THEN [kind |-> "UseSource"]
         ELSE IF (strategy = "PreferLarger")
                   = (source_info.size > destination_info.size)
           THEN [kind |-> "UseSource"]
         ELSE [kind |-> "UseDestination"]
    [] strategy = "Skip" -> [kind |-> "Skip"]
    [] strategy = "BackupAndUseSource" ->
         LET b == generate_backup_path(options, destination, "dest")
         IN  IF b.ok THEN [kind |-> "BackupAndUseSource", backup_path |-> b.path]
             ELSE [kind |-> "Err"]
    [] strategy = "BackupAndKeepDestination" ->
         LET b == generate_backup_path(options, source, "src")
         IN  IF b.ok THEN [kind |-> "BackupAndKeepDestination", backup_path |-> b.path]
             ELSE [kind |-> "Err"]
    [] strategy = "Manual" -> [kind |-> "ManualRequired"]
    [] strategy = "Fail" -> [kind |-> "Failed"]

\* ConflictResolver::apply_strategy; [kind |-> "Err"] is the
\* ConflictResolution error.
RECURSIVE apply_strategy(_, _, _, _, _, _)
apply_strategy(strategy, source, destination, source_info, destination_info, options) ==
  CASE strategy = "PreferSource" -> [kind |-> "UseSource"]
    [] strategy = "PreferDestination" -> [kind |-> "UseDestination"]
    [] strategy = "PreferNewer" ->
         IF source_info.modified > destination_info.modified
           THEN [kind |-> "UseSource"]
         ELSE IF destination_info.modified > source_info.modified
           THEN [kind |-> "UseDestination"]
         ELSE [kind |-> "UseSource"]
    [] strategy = "PreferOlder" ->
         IF source_info.modified < destination_info.modified
           THEN [kind |-> "UseSource"]
         ELSE IF destination_info.modified < source_info.modified
           THEN [kind |-> "UseDestination"]
         ELSE [kind |-> "UseSource"]
    [] strategy = "PreferLarger" ->
         IF source_info.size > destination_info.size
           THEN [kind |-> "UseSource"]
         ELSE IF destination_info.size > source_info.size
           THEN [kind |-> "UseDestination"]
         ELSE apply_strategy("PreferNewer", source, destination,
                             source_info, destination_info, options)
    [] strategy = "PreferSmaller" ->
         IF source_info.size < destination_info.size
           THEN [kind |-> "UseSource"]
         ELSE IF destination_info.size < source_info.size
           THEN [kind |-> "UseDestination"]
         ELSE apply_strategy("PreferNewer", source, destination,
                             source_info, destination_info, options)
    [] strategy = "Skip" -> [kind |-> "Skip"]
    [] strategy = "BackupAndUseSource" ->
         LET b == generate_backup_path(options, destination, "dest")
         IN  IF b.ok THEN [kind |-> "BackupAndUseSource", backup_path |-> b.path]
             ELSE [kind |-> "Err"]
    [] strategy = "BackupAndKeepDestination" ->
         LET b == generate_backup_path(options, source, "src")
         IN  IF b.ok THEN [kind |-> "BackupAndKeepDestination", backup_path |-> b.path]
             ELSE [kind |-> "Err"]
    [] strategy = "Manual" -> [kind |-> "ManualRequired"]
    [] strategy = "Fail" -> [kind |-> "Failed"]

\* ConflictResolver::resolve_conflict: the engine sets no per-type strategy.
resolve_conflict(a, options) ==
  apply_strategy(options.conflict_strategy, a.source, a.destination,
                 a.source_info, a.destination_info, options)

\* resolution_to_action that hands a conflict needing manual input back as
\* a Conflict action.
resolution_to_action_requeue(resolution, source, destination, source_info) ==
  IF resolution.kind \in {"UseSource", "BackupAndUseSource"}
    THEN [ok |-> TRUE, some |-> TRUE,
          action |-> Update(source, destination, source_info.size)]
  ELSE IF resolution.kind = "ManualRequired"
    THEN [ok |-> TRUE, some |-> TRUE,
          action |-> Conflict(source, destination, "BothModified",
                              source_info, source_info)]
  ELSE IF resolution.kind = "Failed"
    THEN [ok |-> FALSE, some |-> FALSE, action |-> Skip(destination, "")]
  ELSE [ok |-> TRUE, some |-> TRUE,
        action |-> Skip(destination, "Skipped due to conflict")]

\* ConflictResolver::resolution_to_action: Ok(Some(action)), Ok(None) or Err.
resolution_to_action(resolution, source, destination, source_info) ==
  CASE resolution.kind = "UseSource" ->
         [ok |-> TRUE, some |-> TRUE,
          action |-> Update(source, destination, source_info.size)]
    [] resolution.kind = "UseDestination" ->
         [ok |-> TRUE, some |-> TRUE,
          action |-> Skip(destination, "Keeping destination file due to conflict resolution")]
    [] resolution.kind = "Skip" ->
         [ok |-> TRUE, some |-> TRUE,
          action |-> Skip(destination, "Skipped due to conflict")]
    [] resolution.kind = "BackupAndUseSource" ->
         [ok |-> TRUE, some |-> TRUE,
          action |-> Update(source, destination, source_info.size)]
    [] resolution.kind = "BackupAndKeepDestination" ->
         [ok |-> TRUE, some |-> TRUE,
          action |-> Skip(destination, "Keeping destination file with backup of source")]
    [] resolution.kind = "ManualRequired" ->
         [ok |-> TRUE, some |-> FALSE, action |-> Skip(destination, "")]
    [] resolution.kind = "Failed" ->
         [ok |-> FALSE, some |-> FALSE, action |-> Skip(destination, "")]

(***************************************************************************)
(* Filesystem effects of the executor (sync_engine.rs, preservation.rs)     *)
(***************************************************************************)
\* A filesystem operation returns [ok, fs]: whether it succeeded and the
\* tree it leaves behind.

\* tokio::fs::create_dir_all: fails when the path or one of its ancestors is
\* a file; creates the missing directories.
create_dir_all(fs, p, now) ==
  IF \E q \in Prefixes(p) : fs[q].kind = "file"
    THEN [ok |-> FALSE, fs |-> fs]
    ELSE [ok |-> TRUE,
          fs |-> [q \in Paths |->
                    IF q \in Prefixes(p) /\ fs[q].kind = "absent"
                      THEN DirNode(now) ELSE fs[q]]]

\* AttributePreserver::set_file_times: the time is passed on in whole seconds.
set_file_times(mtime) == (mtime \div TicksPerSec) * TicksPerSec

\* A copy_file that does not look at dry_run.
copy_file_unguarded(src, fs, destination, options, now) ==
  LET made == IF destination = Root THEN [ok |-> TRUE, fs |-> fs]
              ELSE create_dir_all(fs, Parent(destination), now)
      mtime == IF options.preserve_mtime
                 THEN set_file_times(src.mtime) ELSE now
  IN  IF ~ made.ok THEN [ok |-> FALSE, fs |-> fs]
      ELSE IF src.kind # "file" \/ made.fs[destination].kind = "dir"
        THEN [ok |-> FALSE, fs |-> made.fs]
      ELSE [ok |-> TRUE,
            fs |-> [made.fs EXCEPT ![destination] = FileNode(src.content, mtime)]]

\* SyncEngine::copy_file: src is the node at the source path.
copy_file(src, fs, destination, options, now) ==
  IF options.dry_run THEN [ok |-> TRUE, fs |-> fs]
  ELSE LET made == IF destination = Root THEN [ok |-> TRUE, fs |-> fs]
                   ELSE create_dir_all(fs, Parent(destination), now)
           mtime == IF options.preserve_mtime
                      THEN set_file_times(src.mtime) ELSE now
       IN  IF ~ made.ok THEN [ok |-> FALSE, fs |-> fs]
           ELSE IF src.kind # "file" \/ made.fs[destination].kind = "dir"
             THEN [ok |-> FALSE, fs |-> made.fs]
           ELSE [ok |-> TRUE,
                 fs |-> [made.fs EXCEPT ![destination] = FileNode(src.content, mtime)]]

\* SyncEngine::delete_file: remove_dir_all for a directory, else remove_file.
delete_file(fs, path, options) ==
  IF options.dry_run THEN [ok |-> TRUE, fs |-> fs]
  ELSE IF fs[path].kind = "dir"
    THEN [ok |-> TRUE,
          fs |-> [q \in Paths |->
                    IF q = path \/ IsUnder(q, path) THEN Absent ELSE fs[q]]]
  ELSE IF fs[path].kind = "file"
    THEN [ok |-> TRUE, fs |-> [fs EXCEPT ![path] = Absent]]
  ELSE [ok |-> FALSE, fs |-> fs]

\* SyncEngine::create_directory
create_directory(fs, path, options, now) ==
  IF options.dry_run THEN [ok |-> TRUE, fs |-> fs]
  ELSE create_dir_all(fs, path, now)

\* SyncEngine::get_action_file_size
get_action_file_size(a) ==
  CASE a.type \in {"Copy", "Update"} -> a.file_size
    [] a.type = "Conflict" -> a.source_info.size
    [] OTHER -> 0

\* SyncEngine::get_action_operation
get_action_operation(a) == a.type

(***************************************************************************)
(* Metrics (metrics.rs)                                                     *)
(***************************************************************************)
\* SyncMetrics::new: the counters the pipeline reads or writes.
NewMetrics ==
  [scanned |-> 0, processed |-> 0, copied |-> 0, updated |-> 0, deleted |-> 0,
   skipped |-> 0, directories_created |-> 0, conflicts |-> 0, failed |-> 0,
   bytes_scanned |-> 0, bytes_transferred |-> 0, bytes_copied |-> 0,
   bytes_updated |-> 0, average_file_size |-> 0,
   total_errors |-> 0, critical_errors |-> <<>>, recoverable_errors |-> <<>>,
   completed |-> FALSE]

\* SyncMetrics::record_scan
record_scan(m, files_found, bytes) ==
  [m EXCEPT !.scanned = @ + files_found, !.bytes_scanned = @ + bytes]

\* SyncMetrics::record_file_operation
record_file_operation(m, operation, file_size) ==
  [m EXCEPT
     !.processed = @ + 1,
     !.copied = IF operation = "Copy" THEN @ + 1 ELSE @,
     !.bytes_copied = IF operation = "Copy" THEN @ + file_size ELSE @,
     !.updated = IF operation = "Update" THEN @ + 1 ELSE @,
     !.bytes_updated = IF operation = "Update" THEN @ + file_size ELSE @,
     !.deleted = IF operation = "Delete" THEN @ + 1 ELSE @,
     !.directories_created = IF operation = "CreateDirectory" THEN @ + 1 ELSE @,
     !.skipped = IF operation = "Skip" THEN @ + 1 ELSE @,
     !.conflicts = IF operation = "Conflict" THEN @ + 1 ELSE @,
     !.bytes_transferred = IF file_size > 0 THEN @ + file_size ELSE @]

\* SyncMetrics::record_error
record_error(m, message, is_critical) ==
  [m EXCEPT
     !.total_errors = @ + 1,
     !.critical_errors = IF is_critical THEN Append(@, message) ELSE @,
     !.recoverable_errors = IF is_critical THEN @ ELSE Append(@, message)]

\* SyncMetrics::complete, with calculate_performance_stats
complete(m) ==
  [m EXCEPT
     !.completed = TRUE,
     !.average_file_size =
        IF m.processed > 0 THEN m.bytes_transferred \div m.processed ELSE @]

\* A merge that adds the per-operation counters of the other metrics but
\* leaves files.processed as it was.
merge_without_processed(m, other) ==
  LET sum == [m EXCEPT
        !.scanned = @ + other.scanned,
        !.copied = @ + other.copied,
        !.updated = @ + other.updated,
        !.deleted = @ + other.deleted,
        !.skipped = @ + other.skipped,
        !.directories_created = @ + other.directories_created,
        !.conflicts = @ + other.conflicts,
        !.failed = @ + other.failed,
        !.bytes_scanned = @ + other.bytes_scanned,
        !.bytes_transferred = @ + other.bytes_transferred,
        !.bytes_copied = @ + other.bytes_copied,
        !.bytes_updated = @ + other.bytes_updated,
        !.total_errors = @ + other.total_errors,
        !.critical_errors = @ \o other.critical_errors,
        !.recoverable_errors = @ \o other.recoverable_errors]
  IN  [sum EXCEPT
         !.average_file_size =
            IF sum.processed > 0 THEN sum.bytes_transferred \div sum.processed
            ELSE @]

\* SyncMetrics::merge, with calculate_performance_stats
merge(m, other) ==
  LET sum == [m EXCEPT
        !.scanned = @ + other.scanned,
        !.processed = @ + other.processed,
        !.copied = @ + other.copied,
        !.updated = @ + other.updated,
        !.deleted = @ + other.deleted,
        !.skipped = @ + other.skipped,
        !.directories_created = @ + other.directories_created,
        !.conflicts = @ + other.conflicts,
        !.failed = @ + other.failed,
        !.bytes_scanned = @ + other.bytes_scanned,
        !.bytes_transferred = @ + other.bytes_transferred,
        !.bytes_copied = @ + other.bytes_copied,
        !.bytes_updated = @ + other.bytes_updated,
        !.total_errors = @ + other.total_errors,
        !.critical_errors = @ \o other.critical_errors,
        !.recoverable_errors = @ \o other.recoverable_errors]
  IN  [sum EXCEPT
         !.average_file_size =
            IF sum.processed > 0 THEN sum.bytes_transferred \div sum.processed
            ELSE @]

\* The builds of the crate: with overflow checks (debug) and without
\* (release).
Builds == {"debug", "release"}

\* SyncMetrics::success_rate, the percentage as the fraction num / den.  The
\* subtraction processed - failed is on usize: below zero it panics in a
\* build with overflow checks and wraps in one without, where the record
\* keeps the difference before the wrap and says that it wrapped.
success_rate(m, build) ==
  IF m.processed = 0
    THEN [panic |-> FALSE, wrapped |-> FALSE, num |-> 100, den |-> 1]
  ELSE IF m.failed > m.processed /\ build = "debug"
    THEN [panic |-> TRUE, wrapped |-> FALSE, num |-> 0, den |-> 1]
  ELSE [panic |-> FALSE, wrapped |-> m.failed > m.processed,
        num |-> (m.processed - m.failed) * 100, den |-> m.processed]

(***************************************************************************)
(* Progress events (progress.rs)                                            *)
(***************************************************************************)
Event(kind) == [kind |-> kind]
OpEvent(kind, operation, path, size) ==
  [kind |-> kind, operation |-> operation, path |-> path, size |-> size]

\* The FileOperationStarted event execute_action sends for an action; for a
\* Delete the size is read from the destination, for a Copy or an Update
\* from the source.
StartedEvent(a, sfs, dfs) ==
  CASE a.type \in {"Copy", "Update"} ->
         OpEvent("FileOperationStarted", a.type, a.source, Len(sfs[a.source].content))
    [] a.type = "Delete" ->
         OpEvent("FileOperationStarted", "Delete", a.path, Len(dfs[a.path].content))
    [] a.type = "CreateDirectory" ->
         OpEvent("FileOperationStarted", "CreateDirectory", a.path, 0)
    [] a.type = "Conflict" ->
         OpEvent("FileOperationStarted", "Conflict", a.source, a.source_info.size)

(***************************************************************************)
(* Executor (sync_engine.rs)                                                *)
(***************************************************************************)
NoError == [kind |-> "none", path |-> <<>>]
Error(kind, path) == [kind |-> kind, path |-> path]

\* The head of execute_action: the FileOperationStarted send, which for a
\* Copy or an Update first reads the source's metadata.  live tells whether
\* the channel still has its receiver.
started(a, sfs, dfs, live) ==
  IF a.type = "Skip" THEN [err |-> NoError, sent |-> <<>>]
  ELSE IF a.type \in {"Copy", "Update"} /\ sfs[a.source].kind = "absent"
    THEN [err |-> Error("Io", a.source), sent |-> <<>>]
  ELSE IF ~ live THEN [err |-> Error("Progress", Root), sent |-> <<>>]
  ELSE [err |-> NoError, sent |-> <<StartedEvent(a, sfs, dfs)>>]

\* The rest of execute_action, after the Started send: the filesystem
\* operation, and for a Conflict the resolver and the execution of the
\* action it yields.  The result is Ok(op) or Err(err), the destination tree
\* left behind and the events sent on the way.
RECURSIVE perform(_, _, _, _, _, _)
perform(a, sfs, dfs, options, now, live) ==
  CASE a.type \in {"Copy", "Update"} ->
         LET r == copy_file(sfs[a.source], dfs, a.destination, options, now)
         IN  [ok |-> r.ok, op |-> a.type, fs |-> r.fs, sent |-> <<>>,
              err |-> IF r.ok THEN NoError ELSE Error("FileCopy", a.destination)]
    [] a.type = "Delete" ->
         LET r == delete_file(dfs, a.path, options)
         IN  [ok |-> r.ok, op |-> "Delete", fs |-> r.fs, sent |-> <<>>,
              err |-> IF r.ok THEN NoError ELSE Error("FileDeletion", a.path)]
    [] a.type = "CreateDirectory" ->
         LET r == create_directory(dfs, a.path, options, now)
         IN  [ok |-> r.ok, op |-> "CreateDirectory", fs |-> r.fs, sent |-> <<>>,
              err |-> IF r.ok THEN NoError ELSE Error("Path", a.path)]
    [] a.type = "Conflict" ->
         LET resolution == resolve_conflict(a, options)
             conv == resolution_to_action(resolution, a.source, a.destination,
                                          a.source_info)
             failed == [ok |-> FALSE, op |-> "Conflict", fs |-> dfs, sent |-> <<>>,
                        err |-> Error("ConflictResolution", a.source)]
         IN  IF resolution.kind = "Err" THEN failed
             ELSE IF ~ conv.ok THEN failed
             ELSE IF ~ conv.some
               THEN [ok |-> TRUE, op |-> "Conflict", fs |-> dfs, sent |-> <<>>,
                     err |-> NoError]
             ELSE LET b == conv.action
                      st == started(b, sfs, dfs, live)
                      r == perform(b, sfs, dfs, options, now, live)
                  IN  IF st.err # NoError
                        THEN [ok |-> FALSE, op |-> b.type, fs |-> dfs,
                              sent |-> <<>>, err |-> st.err]
                        ELSE [r EXCEPT !.sent = st.sent \o r.sent]
    [] a.type = "Skip" ->
         [ok |-> TRUE, op |-> "Skip", fs |-> dfs, sent |-> <<>>, err |-> NoError]

(***************************************************************************)
(* State                                                                    *)
(***************************************************************************)
VARIABLES
  options,         \* SyncEngine.options
  srcFS,           \* the source tree
  dstFS,           \* the destination tree
  clock,           \* the host's clock, in ticks
  consumer,        \* "live" or "dropped": the receiver of the progress channel
  events,          \* the events sent on the progress channel
  run,             \* the number of the sync call
  pc,              \* "idle", "scanning", "executing" or "done"
  source_entries,  \* sync_with_progress: the scan of the source
  dest_entries,    \* sync_with_progress: the scan of the destination
  diff_plan,       \* the plan generate_plan returned
  sync_plan,       \* the plan generate_sync_plan returned, which is executed
  idx,             \* the position of the executor's loop in sync_plan.actions
  inflight,        \* the number of execute_action calls not yet returned
  start_err,       \* the error of the current action's Started send, if any
  executed,        \* the actions the executor started, in order
  metrics,         \* the SyncMetrics of the run
  first_error,     \* the first action error the executor saw in the run
  result,          \* what the sync call returned
  history,         \* the outcome of the earlier sync calls
  backupFS,        \* the files of the backup directory: path and content
  probe            \* a call of a library function: its arguments and result

vars ==
  <<options, srcFS, dstFS, clock, consumer, events, run, pc, source_entries,
    dest_entries, diff_plan, sync_plan, idx, inflight, start_err, executed,
    metrics, first_error, result, history, backupFS, probe>>

NoPlan == [ok |-> TRUE, actions |-> <<>>, summary |-> generate_summary(<<>>)]
NoResult == [status |-> "none", error |-> NoError]
Ok == [status |-> "Ok", error |-> NoError]
Err(e) == [status |-> "Err", error |-> e]
ProgressErr == Err(Error("Progress", Root))

Live == consumer = "live"

\* No library function is being called.
NoProbe == [fn |-> "none"]

(***************************************************************************)
(* Initial states                                                           *)
(***************************************************************************)
\* The filters the options are drawn from.
FilterChoices ==
  {NoFilter,
   FilterOf(<<<<"**", "x">>>>, <<>>),
   FilterOf(<<>>, <<<<"d", "e">>>>)}

\* A filter that lets no file of more than one byte through, and one whose
\* include pattern does not compile.
SizeLimited == [DefaultFilter EXCEPT !.max_file_size = SomeSize(1)]

BadGlob == FilterOf(<<<<"[">>>>, <<>>)

\* SyncOptions::default() with some of its fields set otherwise.
OptionChoices ==
  {[DefaultOptions EXCEPT !.dry_run = dr, !.continue_on_error = c,
                          !.conflict_strategy = st, !.backup_directory = TRUE] :
     dr \in BOOLEAN, c \in BOOLEAN, st \in Strategies}
  \cup
  {[DefaultOptions EXCEPT !.comparison_method = m, !.preserve_mtime = pm,
                          !.conflict_strategy = "PreferSource"] :
     m \in Methods, pm \in BOOLEAN}
  \cup
  {[DefaultOptions EXCEPT !.delete_extra = de, !.filter_options = f,
                          !.continue_on_error = c] :
     de \in BOOLEAN, f \in FilterChoices, c \in BOOLEAN}
  \cup
  {[DefaultOptions EXCEPT !.max_concurrency = n] : n \in {0, 1}}
  \cup
  {[DefaultOptions EXCEPT !.comparison_method = m, !.collect_hashes = TRUE] :
     m \in {"Sha256", "Blake3"}}
  \cup
  {[DefaultOptions EXCEPT !.filter_options = f, !.scan_filter_options = f] :
     f \in {SizeLimited, BadGlob}}

\* A newly constructed engine that has not been called, a new progress
\* channel and an empty backup directory.
Fresh ==
  /\ clock = ClockStart
  /\ consumer = "live"
  /\ events = <<>>
  /\ run = 1
  /\ pc = "idle"
  /\ source_entries = <<>>
  /\ dest_entries = <<>>
  /\ diff_plan = NoPlan
  /\ sync_plan = NoPlan
  /\ idx = 1
  /\ inflight = 0
  /\ start_err = NoError
  /\ executed = <<>>
  /\ metrics = NewMetrics
  /\ first_error = NoError
  /\ result = NoResult
  /\ history = <<>>
  /\ backupFS = {}

Init ==
  /\ options \in OptionChoices
  /\ srcFS \in Trees
  /\ dstFS \in Trees \cup {EmptyFS}
  /\ Fresh
  /\ probe = NoProbe

(***************************************************************************)
(* Actions                                                                  *)
(***************************************************************************)
\* sync_with_progress returns: its result, the metrics at that point and the
\* events sent since the last step.
Return(res, m, sent) ==
  /\ pc' = "done"
  /\ result' = res
  /\ metrics' = m
  /\ events' = events \o sent

\* sync_with_progress up to the scan: the metrics are created, the start is
\* announced and a missing destination root is created (or, in a dry run,
\* announced).
Begin ==
  /\ pc = "idle"
  /\ IF ~ Live
       THEN /\ Return(ProgressErr, NewMetrics, <<>>)
            /\ UNCHANGED dstFS
       ELSE /\ pc' = "scanning"
            /\ metrics' = NewMetrics
            /\ result' = result
            /\ IF dstFS[Root].kind = "absent"
                 THEN IF options.dry_run
                        THEN /\ events' = events \o <<Event("Info"), Event("Info")>>
                             /\ UNCHANGED dstFS
                        ELSE /\ events' = events \o <<Event("Info")>>
                             /\ dstFS' = create_dir_all(dstFS, Root, clock).fs
                 ELSE /\ events' = events \o <<Event("Info")>>
                      /\ UNCHANGED dstFS
  /\ UNCHANGED <<options, srcFS, clock, consumer, run, source_entries,
                 dest_entries, diff_plan, sync_plan, idx, inflight, start_err,
                 executed, first_error, history, backupFS, probe>>

\* scan_directories, record_scan, sync_started and generate_sync_plan.
ScanAndPlan ==
  /\ pc = "scanning"
  /\ \E so \in WalkOrders(srcFS), do \in WalkOrders(dstFS) :
       LET se == scan(srcFS, so, options)
           de == scan(dstFS, do, options)
           bytes == SumSeq([i \in 1..Len(se) |-> se[i].size])
                    + SumSeq([i \in 1..Len(de) |-> de[i].size])
           m == record_scan(metrics, Len(se) + Len(de), bytes)
           dp == generate_plan(se, de, options.comparison_method, srcFS, dstFS)
           sp == generate_sync_plan(se, de, options, srcFS, dstFS)
           scanned == <<Event("ScanStarted"), Event("ScanCompleted"),
                        Event("ScanStarted"), Event("ScanCompleted"),
                        OpEvent("SyncStarted", "Sync", Root, Len(se)),
                        Event("Info")>>
       IN  IF ~ Live
             THEN /\ Return(ProgressErr, metrics, <<>>)
                  /\ UNCHANGED <<source_entries, dest_entries, diff_plan,
                                 sync_plan>>
           ELSE IF srcFS[Root].kind # "dir"
             THEN /\ Return(Err(Error("Path", Root)), metrics,
                            <<Event("ScanStarted")>>)
                  /\ UNCHANGED <<source_entries, dest_entries, diff_plan,
                                 sync_plan>>
           ELSE /\ source_entries' = se
                /\ dest_entries' = de
                /\ diff_plan' = dp
                /\ sync_plan' = sp
                /\ IF ~ sp.ok
                     THEN Return(Err(Error("Comparison", Root)), m, scanned)
                     ELSE /\ pc' = "executing"
                          /\ result' = result
                          /\ metrics' = m
                          /\ events' = events \o scanned
                                         \o <<Event("Info"), Event("Info")>>
  /\ UNCHANGED <<options, srcFS, dstFS, clock, consumer, run, idx, inflight,
                 start_err, executed, first_error, history, backupFS, probe>>

\* The executor's loop takes the next action and enters execute_action, which
\* announces the operation.
StartAction ==
  /\ pc = "executing"
  /\ inflight = 0
  /\ idx <= Len(sync_plan.actions)
  /\ LET a == sync_plan.actions[idx]
         st == started(a, srcFS, dstFS, Live)
     IN  /\ start_err' = st.err
         /\ events' = events \o st.sent
         /\ executed' = Append(executed, a)
  /\ inflight' = inflight + 1
  /\ UNCHANGED <<options, srcFS, dstFS, clock, consumer, run, pc,
                 source_entries, dest_entries, diff_plan, sync_plan, idx,
                 metrics, first_error, result, history, backupFS, probe>>

\* execute_action returns and the loop body records the outcome: the
\* operation in the metrics and a Completed event, or the error in the
\* metrics and a Failed event, after which the sync goes on or returns.
FinishAction ==
  /\ pc = "executing"
  /\ inflight = 1
  /\ LET a == sync_plan.actions[idx]
         r == IF start_err # NoError
                THEN [ok |-> FALSE, op |-> a.type, fs |-> dstFS, sent |-> <<>>,
                      err |-> start_err]
                ELSE perform(a, srcFS, dstFS, options, clock, Live)
         file_size == get_action_file_size(a)
         done == OpEvent(IF r.ok THEN "FileOperationCompleted"
                                 ELSE "FileOperationFailed",
                         IF r.ok THEN r.op ELSE get_action_operation(a),
                         ActionPath(a), IF r.ok THEN file_size ELSE 0)
         m == IF r.ok THEN record_file_operation(metrics, r.op, file_size)
                      ELSE record_error(metrics, r.err,
                                        ~ options.continue_on_error)
     IN  /\ dstFS' = r.fs
         /\ first_error' = IF ~ r.ok /\ first_error = NoError
                             THEN r.err ELSE first_error
         /\ IF ~ Live
              THEN Return(ProgressErr, m, r.sent)
            ELSE IF ~ r.ok /\ ~ options.continue_on_error
              THEN Return(Err(r.err), m,
                          r.sent \o <<done, Event("ProgressUpdate")>>)
            ELSE /\ pc' = pc
                 /\ result' = result
                 /\ metrics' = m
                 /\ events' = events \o r.sent
                                \o <<done, Event("ProgressUpdate")>>
  /\ inflight' = inflight - 1
  /\ start_err' = NoError
  /\ idx' = idx + 1
  /\ clock' = clock + 1
  /\ UNCHANGED <<options, srcFS, consumer, run, source_entries, dest_entries,
                 diff_plan, sync_plan, executed, history, backupFS, probe>>

\* The loop is through: metrics.complete(), SyncCompleted, Ok(metrics).
Complete ==
  /\ pc = "executing"
  /\ inflight = 0
  /\ idx > Len(sync_plan.actions)
  /\ IF Live
       THEN Return(Ok, complete(metrics),
                   <<OpEvent("SyncCompleted", "Sync", Root, metrics.processed),
                     Event("Info")>>)
       ELSE Return(ProgressErr, complete(metrics), <<>>)
  /\ UNCHANGED <<options, srcFS, dstFS, clock, consumer, run, source_entries,
                 dest_entries, diff_plan, sync_plan, idx, inflight, start_err,
                 executed, first_error, history, backupFS, probe>>

\* What the caller keeps of a sync call that has returned.
Outcome ==
  [result |-> result, metrics |-> metrics, plan |-> sync_plan,
   events |-> events, dry_run |-> options.dry_run]

\* After a sync that returned Ok the caller runs the engine again on the
\* same trees, with a new progress channel.
SyncAgain ==
  /\ pc = "done"
  /\ result = Ok
  /\ run < MaxRuns
  /\ run' = run + 1
  /\ history' = Append(history, Outcome)
  /\ pc' = "idle"
  /\ consumer' = "live"
  /\ events' = <<>>
  /\ source_entries' = <<>>
  /\ dest_entries' = <<>>
  /\ diff_plan' = NoPlan
  /\ sync_plan' = NoPlan
  /\ idx' = 1
  /\ executed' = <<>>
  /\ metrics' = NewMetrics
  /\ first_error' = NoError
  /\ result' = NoResult
  /\ UNCHANGED <<options, srcFS, dstFS, clock, inflight, start_err, backupFS,
                 probe>>

\* The consumer of the progress events drops its receiver while the sync
\* runs.
DropConsumer ==
  /\ pc # "done"
  /\ consumer = "live"
  /\ consumer' = "dropped"
  /\ UNCHANGED <<options, srcFS, dstFS, clock, events, run, pc,
                 source_entries, dest_entries, diff_plan, sync_plan, idx,
                 inflight, start_err, executed, metrics, first_error, result,
                 history, backupFS, probe>>

\* One sync, whose consumer may go away at any time.
Next ==
  \/ Begin
  \/ ScanAndPlan
  \/ StartAction
  \/ FinishAction
  \/ Complete
  \/ DropConsumer

Spec == Init /\ [][Next]_vars

\* Successive syncs, each with a consumer that stays.
NextAgain ==
  \/ Begin
  \/ ScanAndPlan
  \/ StartAction
  \/ FinishAction
  \/ Complete
  \/ SyncAgain

SpecAgain == Init /\ [][NextAgain]_vars

\* After a dry run that returned Ok the caller switches dry_run off
\* (set_options) and runs the engine for real on the same trees, with a new
\* progress channel.
SyncForReal ==
  /\ pc = "done"
  /\ result = Ok
  /\ options.dry_run
  /\ run < MaxRuns
  /\ run' = run + 1
  /\ options' = [options EXCEPT !.dry_run = FALSE]
  /\ history' = Append(history, Outcome)
  /\ pc' = "idle"
  /\ consumer' = "live"
  /\ events' = <<>>
  /\ source_entries' = <<>>
  /\ dest_entries' = <<>>
  /\ diff_plan' = NoPlan
  /\ sync_plan' = NoPlan
  /\ idx' = 1
  /\ executed' = <<>>
  /\ metrics' = NewMetrics
  /\ first_error' = NoError
  /\ result' = NoResult
  /\ UNCHANGED <<srcFS, dstFS, clock, inflight, start_err, backupFS, probe>>

\* A preview and then the real run, each with a consumer that stays.
NextPreview ==
  \/ Begin
  \/ ScanAndPlan
  \/ StartAction
  \/ FinishAction
  \/ Complete
  \/ SyncForReal

SpecPreview == Init /\ [][NextPreview]_vars

(***************************************************************************)
(* Calls of the library's functions on their own                            *)
(***************************************************************************)
\* The FileInfo values of regular files a resolver is called with.
ProbeInfos ==
  {[size |-> n, modified |-> m, is_dir |-> FALSE, is_symlink |-> FALSE,
    hash |-> NoHash] : n \in 1..MaxFileLen, m \in Mtimes}

\* The calls of ConflictResolver::resolve_conflict followed by
\* resolution_to_action: a resolver of some strategy, with or without a
\* backup directory, and a conflict between two regular files.
ResolveCalls ==
  {[fn |-> "resolve", done |-> FALSE, strategy |-> st, backup_directory |-> b,
    conflict |-> Conflict(PathDEX, PathDEX, ct, si, di)] :
     st \in Strategies, b \in BOOLEAN,
     ct \in {"BothModified", "SizeMismatch"},
     si \in ProbeInfos, di \in ProbeInfos}

\* The filters FileFilter::and is called with: the default, filters with an
\* include or an exclude pattern, a case sensitive one, one that leaves
\* hidden files out and two with a size limit.
ProbeFilters ==
  {DefaultFilter,
   FilterOf(<<<<"**", "x">>>>, <<>>),
   FilterOf(<<<<"**", "y">>>>, <<>>),
   [FilterOf(<<<<"**", "X">>>>, <<>>) EXCEPT !.case_sensitive = TRUE],
   FilterOf(<<>>, <<<<"**", "y">>>>),
   [DefaultFilter EXCEPT !.include_hidden = FALSE],
   [DefaultFilter EXCEPT !.min_file_size = SomeSize(MaxFileLen)],
   [DefaultFilter EXCEPT !.max_file_size = SomeSize(1)]}

\* The paths and the sizes the filters are asked about.
ProbePaths == {<<"x">>, <<"X">>, <<"y">>, <<".h", "x">>}

AndCalls ==
  {[fn |-> "and", done |-> FALSE, self |-> f1, other |-> f2, path |-> p,
    file_size |-> n] :
     f1 \in ProbeFilters, f2 \in ProbeFilters, p \in ProbePaths,
     n \in 0..MaxFileLen}

\* The calls of FileComparator::compare, and of the same with the two paths
\* swapped: what is found at either path is nothing, a directory or a file.
CompareCalls ==
  {[fn |-> "compare", done |-> FALSE, source |-> a, destination |-> b,
    method |-> m] : a \in Nodes, b \in Nodes, m \in Methods}

\* The options of the engine whose resolver the call goes to.
ResolverOptions(call) ==
  [DefaultOptions EXCEPT !.conflict_strategy = call.strategy,
                         !.backup_directory = call.backup_directory]

\* The operations and the value of files.failed in a call of success_rate.
MaxOps == 8
MaxFailed == 2

\* The metrics after n successful copies of one byte each.
RECURSIVE RecordedCopies(_)
RecordedCopies(n) ==
  IF n = 0 THEN NewMetrics
  ELSE record_file_operation(RecordedCopies(n - 1), "Copy", 1)

\* The calls of success_rate: after some operations recorded through
\* record_file_operation, with files.failed set by the caller.
RateCalls ==
  {[fn |-> "success_rate", done |-> FALSE, operations |-> n, failed |-> f,
    build |-> b] : n \in 0..MaxOps, f \in 0..MaxFailed, b \in Builds}

InitCalls ==
  /\ options = DefaultOptions
  /\ srcFS = EmptyFS
  /\ dstFS = EmptyFS
  /\ Fresh
  /\ probe \in ResolveCalls \cup AndCalls \cup CompareCalls \cup RateCalls

\* resolve_conflict and, when it returns a resolution, resolution_to_action,
\* as the executor's Conflict arm calls them.
Resolve ==
  /\ probe.fn = "resolve"
  /\ ~ probe.done
  /\ LET c == probe.conflict
         res == resolve_conflict(c, ResolverOptions(probe))
         act == IF res.kind = "Err"
                  THEN [ok |-> FALSE, some |-> FALSE]
                  ELSE resolution_to_action(res, c.source, c.destination,
                                            c.source_info)
     IN  probe' = [fn |-> "resolve", done |-> TRUE,
                   strategy |-> probe.strategy,
                   backup_directory |-> probe.backup_directory,
                   conflict |-> c, resolution |-> res, action |-> act]
  /\ UNCHANGED <<options, srcFS, dstFS, clock, consumer, events, run, pc,
                 source_entries, dest_entries, diff_plan, sync_plan, idx,
                 inflight, start_err, executed, metrics, first_error, result,
                 history, backupFS>>

\* self.and(other), and should_include_file of the combined filter.
Combine ==
  /\ probe.fn = "and"
  /\ ~ probe.done
  /\ LET combined == and(probe.self, probe.other)
     IN  probe' = [fn |-> "and", done |-> TRUE, self |-> probe.self,
                   other |-> probe.other, path |-> probe.path,
                   file_size |-> probe.file_size, combined |-> combined,
                   included |-> /\ combined.ok
                                /\ should_include_file(combined.filter,
                                                        probe.path,
                                                        probe.file_size)]
  /\ UNCHANGED <<options, srcFS, dstFS, clock, consumer, events, run, pc,
                 source_entries, dest_entries, diff_plan, sync_plan, idx,
                 inflight, start_err, executed, metrics, first_error, result,
                 history, backupFS>>

\* compare(source, destination, method) and compare(destination, source,
\* method).
Compare ==
  /\ probe.fn = "compare"
  /\ ~ probe.done
  /\ probe' = [fn |-> "compare", done |-> TRUE, source |-> probe.source,
               destination |-> probe.destination, method |-> probe.method,
               result |-> compare(probe.source, probe.destination,
                                  probe.method),
               swapped |-> compare(probe.destination, probe.source,
                                   probe.method)]
  /\ UNCHANGED <<options, srcFS, dstFS, clock, consumer, events, run, pc,
                 source_entries, dest_entries, diff_plan, sync_plan, idx,
                 inflight, start_err, executed, metrics, first_error, result,
                 history, backupFS>>

\* The operations are recorded, the caller sets files.failed and asks for the
\* success rate.
SuccessRate ==
  /\ probe.fn = "success_rate"
  /\ ~ probe.done
  /\ metrics' = [RecordedCopies(probe.operations) EXCEPT !.failed = probe.failed]
  /\ probe' = [fn |-> "success_rate", done |-> TRUE,
               operations |-> probe.operations, failed |-> probe.failed,
               build |-> probe.build,
               result |-> success_rate(metrics', probe.build)]
  /\ UNCHANGED <<options, srcFS, dstFS, clock, consumer, events, run, pc,
                 source_entries, dest_entries, diff_plan, sync_plan, idx,
                 inflight, start_err, executed, first_error, result,
                 history, backupFS>>

NextCalls ==
  \/ Resolve
  \/ Combine
  \/ Compare
  \/ SuccessRate

SpecCalls == InitCalls /\ [][NextCalls]_vars

(***************************************************************************)
(* Properties                                                               *)
(***************************************************************************)
\* The relative paths the actions of the given types refer to.
PathsOf(actions, types) ==
  {ActionPath(actions[i]) : i \in {k \in 1..Len(actions) : actions[k].type \in types}}

\* The plans of the current run have been made.
Planned == pc \in {"executing", "done"} /\ source_entries # <<>> /\ diff_plan.ok

\* C1: in every plan the Differ produces from S and D, the paths of the Copy,
\* Update, Skip, CreateDirectory and Conflict actions are the relative paths
\* of S, and the paths of the Delete actions are rel-paths(D) \ rel-paths(S)
\* when delete_extra is set and none when it is not.
C1_PlanCoversSourceAndExtras ==
  Planned =>
    /\ PathsOf(diff_plan.actions,
               {"Copy", "Update", "Skip", "CreateDirectory", "Conflict"})
         = RelPaths(source_entries)
    /\ PathsOf(diff_plan.actions, {"Delete"})
         = IF options.delete_extra
             THEN RelPaths(dest_entries) \ RelPaths(source_entries)
             ELSE {}

\* C2: with dry_run set no step of a sync changes the source tree or the
\* destination tree, whatever the plan and the conflict strategy; a missing
\* destination root stays missing.
C2_DryRunChangesNothing ==
  [][options.dry_run => (srcFS' = srcFS /\ dstFS' = dstFS)]_vars

\* A dry run over a Copy and a CreateDirectory has returned Ok and the
\* destination root is still missing.
C2_Witness ==
  /\ options.dry_run
  /\ pc = "done"
  /\ result = Ok
  /\ dstFS[Root].kind = "absent"
  /\ PathsOf(executed, {"Copy"}) # {}
  /\ PathsOf(executed, {"CreateDirectory"}) # {}

\* C3: during the execute phase the number of actions in flight never
\* exceeds max_concurrency.
C3_InFlightWithinMaxConcurrency == inflight <= options.max_concurrency

\* C4: with continue_on_error unset, once an action has failed the executor
\* starts no further action and the sync returns that first error.
C4_StopsWithFirstError ==
  (~ options.continue_on_error /\ first_error # NoError) =>
    /\ pc = "done"
    /\ inflight = 0
    /\ result = Err(first_error)

\* The actions of the plan that have failed so far (the errors recorded).
FailedActions == metrics.total_errors

\* C5: with continue_on_error set a failing action does not stop the sync:
\* each failure is counted in files.failed and listed in recoverable_errors,
\* none in critical_errors, every action of the plan is executed and the sync
\* returns its metrics.  Stated for a consumer that stays.
C5_ContinuesAndCountsFailures ==
  (options.continue_on_error /\ Live /\ first_error # NoError) =>
    /\ metrics.failed = FailedActions
    /\ Len(metrics.recoverable_errors) = FailedActions
    /\ metrics.critical_errors = <<>>
    /\ pc = "executing"
         \/ (pc = "done" /\ result = Ok
               /\ Len(executed) = Len(sync_plan.actions))

\* C6: in the order in which the executor runs the actions, CreateDirectory(p)
\* comes before every action whose path lies under p.
C6_DirectoryBeforeContents ==
  \A i \in 1..Len(executed), j \in 1..Len(executed) :
    (/\ executed[i].type = "CreateDirectory"
     /\ IsUnder(ActionPath(executed[j]), executed[i].path)) => i < j

\* The executor has run CreateDirectory(d), then CreateDirectory(d/e), then
\* the Copy of d/e/x.
C6_Witness ==
  /\ pc = "done"
  /\ \E i, j, k \in 1..Len(executed) :
       /\ i < j /\ j < k
       /\ executed[i] = CreateDirectory(PathD)
       /\ executed[j] = CreateDirectory(PathDE)
       /\ executed[k].type = "Copy" /\ executed[k].source = PathDEX

\* C7: with delete_extra unset a destination-only path yields a Skip and no
\* Delete in the plan, and the destination keeps the entry.
C7_ExtrasKeptWithoutDeleteExtra ==
  (~ options.delete_extra /\ Planned) =>
    LET extra == RelPaths(dest_entries) \ RelPaths(source_entries)
    IN  /\ PathsOf(diff_plan.actions, {"Delete"}) = {}
        /\ PathsOf(sync_plan.actions, {"Delete"}) = {}
        /\ extra \subseteq PathsOf(diff_plan.actions, {"Skip"})
        /\ extra \subseteq Present(dstFS)

\* No two actions of the plan other than Skips refer to the same relative
\* path or write to the same destination path.
OneActionPerPath(actions) ==
  \A i \in 1..Len(actions), j \in 1..Len(actions) :
    (i < j /\ actions[i].type # "Skip" /\ actions[j].type # "Skip") =>
      /\ ActionPath(actions[i]) # ActionPath(actions[j])
      /\ TargetPath(actions[i]) # TargetPath(actions[j])

\* C8: in every plan the Differ constructs, and in the plan the executor
\* runs, each relative path is referenced by at most one action that is not
\* a Skip.
C8_OneActionPerPath ==
  Planned => OneActionPerPath(diff_plan.actions) /\ OneActionPerPath(sync_plan.actions)

\* The Differ has made a plan with an action of the first loop for a path on
\* both sides (a Conflict or an Update) and a Delete of the second loop.
C8_Witness ==
  /\ Planned
  /\ PathsOf(diff_plan.actions, {"Conflict", "Update"}) # {}
  /\ PathsOf(diff_plan.actions, {"Delete"}) # {}

\* The summary of a plan agrees with its actions.
SummaryMatches(plan) ==
  /\ plan.summary.total_actions = Len(plan.actions)
  /\ plan.summary.total_bytes_to_transfer =
       SumSeq([i \in 1..Len(plan.actions) |->
                 IF plan.actions[i].type \in {"Copy", "Update"}
                   THEN plan.actions[i].file_size ELSE 0])

\* C9: for the plan of generate_plan and for the plan the engine executes
\* after its filter stage, summary.total_actions is the number of actions and
\* summary.total_bytes_to_transfer the sum of the sizes of the Copy and
\* Update actions.
C9_SummaryMatchesActions ==
  Planned => SummaryMatches(diff_plan) /\ SummaryMatches(sync_plan)

\* C10: after a sync that was no dry run and completed without an error, the
\* plan of the next sync on the same trees has no Copy, Update or Delete.
C10_SecondPlanIsQuiet ==
  (/\ run > 1
   /\ Planned
   /\ ~ options.dry_run
   /\ history[run - 1].metrics.total_errors = 0) =>
    PathsOf(sync_plan.actions, {"Copy", "Update", "Delete"}) = {}

\* C11: once the consumer of the progress events has dropped its receiver,
\* sending is a no-op: the sync comes to its end as it would have with a
\* live consumer and no progress error reaches the caller.
C11_DroppedConsumerIsHarmless ==
  (pc = "done" /\ consumer = "dropped") =>
     result.error.kind # "Progress"

\* The progress events sent so far that announce an operation, and those
\* that close one.
IsStarted(ev) == ev.kind = "FileOperationStarted"

IsClosing(ev) == ev.kind \in {"FileOperationCompleted", "FileOperationFailed"}

StartedIn(evs) == Cardinality({i \in 1..Len(evs) : IsStarted(evs[i])})

ClosingIn(evs) == Cardinality({i \in 1..Len(evs) : IsClosing(evs[i])})

\* C12: every action the executor runs, whatever its variant, has exactly
\* one FileOperationStarted event, which precedes its single Completed or
\* Failed event: up to and including the k-th closing event the stream
\* carries exactly k Started events.
C12_OneStartedBeforeEachClosing ==
  \A n \in 1..Len(events) :
     IsClosing(events[n]) =>
        StartedIn(SubSeq(events, 1, n)) = ClosingIn(SubSeq(events, 1, n))

\* The Conflict actions of the plan the executor is through with.
ConflictsDone ==
  {i \in 1..(idx - 1) : i <= Len(sync_plan.actions)
                        /\ sync_plan.actions[i].type = "Conflict"}

\* C17: a Conflict whose resolution is ManualRequired leaves the destination
\* alone and is surfaced through the error taxonomy of the metrics as a
\* non-fatal outcome: with the Manual strategy every Conflict the executor
\* is through with has an entry among the recoverable errors, and none
\* among the critical ones.
C17_ManualIsRecoverableError ==
  (pc \in {"executing", "done"} /\ options.conflict_strategy = "Manual"
   /\ Live /\ first_error = NoError) =>
     /\ Len(metrics.recoverable_errors) >= Cardinality(ConflictsDone)
     /\ metrics.critical_errors = <<>>

\* C13: on the same trees and with otherwise the same options, the dry run
\* ends with the same metrics counters and has sent the same sequence of
\* progress events as the real run.
C13_DryRunReportsAsRealRun ==
  (run > 1 /\ pc = "done" /\ result = Ok /\ ~ options.dry_run
   /\ history[run - 1].dry_run) =>
     /\ history[run - 1].metrics = metrics
     /\ history[run - 1].events = events

\* The plan has just been made: the trees are those the Differ looked at.
JustPlanned == Planned /\ pc = "executing" /\ idx = 1 /\ inflight = 0

\* The relative paths that are a regular file on both sides.
FilePairs ==
  {p \in RelPaths(source_entries) \cap RelPaths(dest_entries) :
     /\ ~ Lookup(source_entries, p).is_dir
     /\ ~ Lookup(dest_entries, p).is_dir}

\* The actions of the Differ's plan for the relative path p.
ActionsFor(p) ==
  {i \in 1..Len(diff_plan.actions) : ActionPath(diff_plan.actions[i]) = p}

IsConflict(a, ctype) == a.type = "Conflict" /\ a.conflict_type = ctype

C15_DifferentDigestsUpdate ==
  (JustPlanned /\ options.comparison_method = "Sha256") =>
    \A p \in FilePairs :
      LET s == Lookup(source_entries, p)
          d == Lookup(dest_entries, p)
      IN  (s.hash.some /\ d.hash.some /\ s.hash.digest # d.hash.digest) =>
            /\ Cardinality(ActionsFor(p)) = 1
            /\ \A i \in ActionsFor(p) : diff_plan.actions[i].type = "Update"

\* C18: outside a dry run, when a Conflict is resolved by BackupAndUseSource
\* and its destination is overwritten, the content the destination had is
\* first moved to the computed backup path: after the step the backup path
\* holds the old destination content and the destination the source content.
C18_BackupBeforeOverwrite ==
  [][(/\ pc = "executing" /\ inflight = 1 /\ start_err = NoError
      /\ ~ options.dry_run
      /\ options.conflict_strategy = "BackupAndUseSource"
      /\ sync_plan.actions[idx].type = "Conflict"
      /\ dstFS' # dstFS) =>
       LET a == sync_plan.actions[idx]
           b == generate_backup_path(options, a.destination, "dest")
       IN  /\ [path |-> b.path, content |-> dstFS[a.destination].content]
                \in backupFS'
           /\ dstFS'[a.destination].content = srcFS[a.source].content]_vars

\* C20: for any two filters, every path and every size, the filter
\* self.and(other) includes the file exactly if self includes it and other
\* includes it.
C20_AndIsConjunction ==
  (probe.fn = "and" /\ probe.done /\ probe.combined.ok) =>
     (probe.included <=>
        /\ should_include_file(probe.self, probe.path, probe.file_size)
        /\ should_include_file(probe.other, probe.path, probe.file_size))

\* A call of the resolver that has returned.
Resolved == probe.fn = "resolve" /\ probe.done

\* The resolution of the strategy st for the FileInfo values si and di.
Verdict(st, si, di) ==
  apply_strategy(st, PathDEX, PathDEX, si, di, DefaultOptions).kind

\* C16: the resolver's verdict depends only on the strategy and the relevant
\* attribute. PreferSource, PreferDestination, Skip, Manual and Fail are
\* constant; PreferNewer and PreferOlder decide by the modification times
\* alone, a tie going to the source; PreferLarger and PreferSmaller decide by
\* the sizes alone, a tie being decided as PreferNewer decides.
C16_VerdictByStrategyAndAttribute ==
  Resolved =>
    LET st == probe.strategy
        si == probe.conflict.source_info
        di == probe.conflict.destination_info
        k == probe.resolution.kind
        newer == IF si.modified >= di.modified THEN "UseSource"
                                               ELSE "UseDestination"
    IN  /\ st = "PreferSource" => k = "UseSource"
        /\ st = "PreferDestination" => k = "UseDestination"
        /\ st = "Skip" => k = "Skip"
        /\ st = "Manual" => k = "ManualRequired"
        /\ st = "Fail" => k = "Failed"
        /\ st = "PreferNewer" => k = newer
        /\ st = "PreferOlder" =>
             k = IF si.modified <= di.modified THEN "UseSource"
                                               ELSE "UseDestination"
        /\ st = "PreferLarger" =>
             k = IF si.size > di.size THEN "UseSource"
                 ELSE IF si.size < di.size THEN "UseDestination"
                 ELSE newer
        /\ st = "PreferSmaller" =>
             k = IF si.size < di.size THEN "UseSource"
                 ELSE IF si.size > di.size THEN "UseDestination"
                 ELSE newer
        /\ \A s2 \in ProbeInfos, d2 \in ProbeInfos :
             \/ st \in {"BackupAndUseSource", "BackupAndKeepDestination"}
             \/ /\ st \in {"PreferNewer", "PreferOlder"}
                /\ <<s2.modified, d2.modified>> # <<si.modified, di.modified>>
             \/ /\ st \in {"PreferLarger", "PreferSmaller"}
                /\ \/ <<s2.size, d2.size>> # <<si.size, di.size>>
                   \/ /\ si.size = di.size
                      /\ <<s2.modified, d2.modified>>
                           # <<si.modified, di.modified>>
             \/ Verdict(st, s2, d2) = k

\* PreferLarger was asked about two files of the same size, the destination
\* the newer one, and has answered UseDestination.
C16_Witness ==
  /\ Resolved
  /\ probe.strategy = "PreferLarger"
  /\ probe.conflict.source_info.size = probe.conflict.destination_info.size
  /\ probe.conflict.source_info.modified
       < probe.conflict.destination_info.modified
  /\ probe.resolution.kind = "UseDestination"

Compared == probe.fn = "compare" /\ probe.done

C22_MissingAndDirectoryInputs ==
  Compared =>
    LET s == probe.source
        d == probe.destination
    IN  /\ (s.kind # "absent" /\ d.kind = "absent") =>
             probe.result = "SourceOnly"
        /\ (s.kind = "absent" /\ d.kind # "absent") =>
             probe.result = "DestinationOnly"
        /\ (s.kind = "absent" /\ d.kind = "absent") => probe.result = "Err"
        /\ (s.kind = "dir" /\ d.kind = "dir") => probe.result = "Err"

\* The size limits of the filter f let a file of the given size through.
WithinLimits(f, size) == ~ f.some \/ should_include_size(f, size)

\* C23: with a minimum or maximum file size configured in the filter, the
\* scanner emits no file whose size lies outside the bounds, and no action of
\* the plan refers to such a file.
C23_SizeLimitsApplied ==
  (pc \in {"executing", "done"} /\ source_entries # <<>>) =>
    /\ \A i \in 1..Len(source_entries) :
         source_entries[i].is_dir
           \/ WithinLimits(options.scan_filter_options, source_entries[i].size)
    /\ \A j \in 1..Len(dest_entries) :
         dest_entries[j].is_dir
           \/ WithinLimits(options.scan_filter_options, dest_entries[j].size)
    /\ \A k \in 1..Len(sync_plan.actions) :
         sync_plan.actions[k].type \in {"Copy", "Update"} =>
           WithinLimits(options.filter_options,
                        sync_plan.actions[k].file_size)

\* The filter options of the engine or of its scanner hold a pattern that
\* does not compile.
InvalidFilter ==
  \/ options.filter_options.some /\ ~ FileFilter_new(options.filter_options).ok
  \/ /\ options.scan_filter_options.some
     /\ ~ FileFilter_new(options.scan_filter_options).ok

\* C24: a sync whose filter options contain an invalid glob pattern ends with
\* a fatal filter error and executes no action (the consumer of the progress
\* events staying).
C24_InvalidGlobIsFatal ==
  (InvalidFilter /\ Live) =>
    /\ executed = <<>>
    /\ pc = "done" => (result.status = "Err"
                       /\ result.error.kind = "FilterPattern")

\* The bytes of the Copy and Update operations the progress stream reports
\* as completed.
CopiedAndUpdatedBytes(evs) ==
  SumSeq([i \in 1..Len(evs) |->
            IF /\ evs[i].kind = "FileOperationCompleted"
               /\ evs[i].operation \in {"Copy", "Update"}
              THEN evs[i].size ELSE 0])

\* C28: bytes_transferred is the sum of the sizes of the Copy and Update
\* operations that completed; Skip, Delete and CreateDirectory operations
\* and conflicts resolved to Skip or left for manual handling add nothing.
C28_BytesTransferredIsCopiedAndUpdated ==
  (Live /\ inflight = 0) =>
     metrics.bytes_transferred = CopiedAndUpdatedBytes(events)

\* The terminal events of the progress stream.
TerminalEvents ==
  {i \in 1..Len(events) : events[i].kind \in {"SyncCompleted", "SyncFailed"}}

\* C29: a sync that has emitted SyncStarted on a live progress stream emits
\* exactly one terminal event by the time it returns: SyncCompleted when it
\* returns metrics, SyncFailed when it returns an error.
C29_OneTerminalEvent ==
  (/\ Live /\ pc = "done"
   /\ \E i \in 1..Len(events) : events[i].kind = "SyncStarted") =>
     /\ Cardinality(TerminalEvents) = 1
     /\ \A i \in TerminalEvents :
          events[i].kind = IF result = Ok THEN "SyncCompleted"
                                          ELSE "SyncFailed"

\* The size- and timestamp-based comparison methods.
MetadataMethods == {"Size", "Timestamp", "SizeAndTimestamp"}

\* C27: for the size- and timestamp-based methods generate_plan returns the
\* same plan for the same entries whether or not the files behind the entries
\* exist on disk: the plan built from the scanned entries over the scanned
\* trees equals the plan built from the same entries over empty trees.
C27_PlanFromEntriesAlone ==
  (JustPlanned /\ options.comparison_method \in MetadataMethods) =>
     generate_plan(source_entries, dest_entries, options.comparison_method,
                   EmptyFS, EmptyFS) = diff_plan

(***************************************************************************)
(* A preview before the sync                                                *)
(***************************************************************************)
\* SyncEngine::preview: scan_directories and generate_sync_plan without a
\* reporter, on the trees as they are; the walks run in the orders so and do.
preview(sfs, dfs, so, do, opts) ==
  IF sfs[Root].kind # "dir"
    THEN [ok |-> FALSE, actions |-> <<>>, summary |-> generate_summary(<<>>)]
    ELSE generate_sync_plan(scan(sfs, so, opts), scan(dfs, do, opts), opts,
                            sfs, dfs)

\* The caller asks for a preview before it starts the sync.
Preview ==
  /\ pc = "idle"
  /\ run = 1
  /\ probe = NoProbe
  /\ \E so \in WalkOrders(srcFS), do \in WalkOrders(dstFS) :
       probe' = [fn |-> "preview", done |-> TRUE,
                 result |-> preview(srcFS, dstFS, so, do, options)]
  /\ UNCHANGED <<options, srcFS, dstFS, clock, consumer, events, run, pc,
                 source_entries, dest_entries, diff_plan, sync_plan, idx,
                 inflight, start_err, executed, metrics, first_error, result,
                 history, backupFS>>

NextPlan ==
  \/ Preview
  \/ Begin
  \/ ScanAndPlan
  \/ StartAction
  \/ FinishAction
  \/ Complete

SpecPlan == Init /\ [][NextPlan]_vars

\* Two plans with the same outcome, the same actions and the same summary,
\* whatever the order the walks listed the entries in.
SamePlan(p, q) ==
  /\ p.ok = q.ok
  /\ p.summary = q.summary
  /\ {p.actions[i] : i \in 1..Len(p.actions)}
       = {q.actions[i] : i \in 1..Len(q.actions)}

\* C30: for the same source tree, destination tree (whether or not the
\* destination root exists yet) and options, the plan preview returned is
\* the plan the sync that follows builds and executes.
C30_PreviewIsTheSyncPlan ==
  (JustPlanned /\ probe.fn = "preview") => SamePlan(probe.result, sync_plan)

\* A success rate has been computed.
RateComputed == probe.fn = "success_rate" /\ probe.done

\* C26: success_rate is the number of successful operations divided by
\* successful plus failed operations, as a percentage between 0 and 100:
\* with n operations recorded through record_file_operation and files.failed
\* = f the rate r satisfies r * (n + f) = 100 * n, so eight operations and
\* two failures give 80.
C26_SuccessRate ==
  (RateComputed /\ probe.operations + probe.failed > 0) =>
     LET r == probe.result
     IN  /\ ~ r.panic
         /\ ~ r.wrapped
         /\ 0 <= r.num
         /\ r.num <= 100 * r.den
         /\ r.num * (probe.operations + probe.failed)
              = 100 * probe.operations * r.den

(***************************************************************************)
(* Calls on a SyncMetrics value                                             *)
(***************************************************************************)
\* The calls made on one SyncMetrics value before complete().
MaxCalls == 3

FileOperations ==
  {"Copy", "Update", "Delete", "CreateDirectory", "Skip", "Conflict"}

\* The metrics of another sync operation, as merge takes them: one operation
\* or one error recorded, then completed.
OtherMetrics ==
  {complete(record_file_operation(NewMetrics, op, n)) :
     op \in FileOperations, n \in 0..MaxFileLen}
  \cup {complete(record_error(NewMetrics, Error("Io", Root), c)) :
          c \in BOOLEAN}

NoCalls == [fn |-> "metrics", done |-> FALSE, calls |-> 0, merged |-> FALSE]

InitMetrics ==
  /\ options = DefaultOptions
  /\ srcFS = EmptyFS
  /\ dstFS = EmptyFS
  /\ Fresh
  /\ probe = NoCalls

\* One more call on the metrics, which leaves everything but the metrics as
\* it is.
Called(merged) ==
  /\ probe.fn = "metrics"
  /\ ~ probe.done
  /\ probe.calls < MaxCalls
  /\ probe' = [probe EXCEPT !.calls = @ + 1, !.merged = @ \/ merged]
  /\ UNCHANGED <<options, srcFS, dstFS, clock, consumer, events, run, pc,
                 source_entries, dest_entries, diff_plan, sync_plan, idx,
                 inflight, start_err, executed, first_error, result,
                 history, backupFS>>

RecordFileOperation ==
  /\ Called(FALSE)
  /\ \E op \in FileOperations, n \in 0..MaxFileLen :
       metrics' = record_file_operation(metrics, op, n)

RecordError ==
  /\ Called(FALSE)
  /\ \E c \in BOOLEAN :
       metrics' = record_error(metrics, Error("Io", Root), c)

Merge ==
  /\ Called(TRUE)
  /\ \E other \in OtherMetrics : metrics' = merge(metrics, other)

CompleteMetrics ==
  /\ probe.fn = "metrics"
  /\ ~ probe.done
  /\ metrics' = complete(metrics)
  /\ probe' = [probe EXCEPT !.done = TRUE]
  /\ UNCHANGED <<options, srcFS, dstFS, clock, consumer, events, run, pc,
                 source_entries, dest_entries, diff_plan, sync_plan, idx,
                 inflight, start_err, executed, first_error, result,
                 history, backupFS>>

NextMetrics ==
  \/ RecordFileOperation
  \/ RecordError
  \/ Merge
  \/ CompleteMetrics

SpecMetrics == InitMetrics /\ [][NextMetrics]_vars

\* C25: after any sequence of record_file_operation, record_error and merge
\* calls followed by complete(), files.processed is at least files.copied +
\* files.updated + files.deleted + files.skipped + files.directories_created
\* + files.conflicts.
C25_ProcessedCoversCounters ==
  (probe.fn = "metrics" /\ probe.done) =>
     metrics.processed >=
        metrics.copied + metrics.updated + metrics.deleted + metrics.skipped
          + metrics.directories_created + metrics.conflicts

\* C25: completed metrics that hold recorded operations, a recorded error
\* and the merged metrics of another sync.
C25_Witness ==
  /\ probe.fn = "metrics"
  /\ probe.done
  /\ probe.merged
  /\ metrics.completed
  /\ metrics.processed >= 2
  /\ metrics.total_errors >= 1

====
